---- MODULE Spec2Model ----
(***************************************************************************)
(* Model of script.js: the refresh loop (fetchData), the per-asset         *)
(* enrichment (fetchMarketChart, calculateRSI), the order and timeframe    *)
(* buttons, and the page state they share.                                 *)
(*                                                                         *)
(* JavaScript runs one task at a time.  Every action below is one task     *)
(* (with the microtasks it drains): a DOM event handler, a timer callback  *)
(* or the arrival of a network response followed by the synchronous code   *)
(* that runs up to the next await on a network call.                       *)
(*                                                                         *)
(* Array indices are 1-based here; canvas `chart-<k>` of the page is       *)
(* canvas k+1 of the model.                                                *)
(***************************************************************************)
EXTENDS Integers, Sequences, FiniteSets, TLC

\* ------------------------------------------------------------------------
\* Bounds
\* ------------------------------------------------------------------------
\* longest price series handed to the indicator functions directly
MaxSeriesLen == 201
\* number of fetchData executions a behaviour may start
MaxCycles == 2
\* largest number of assets a snapshot response carries (at most PER_PAGE)
MaxAssets == 2

\* ------------------------------------------------------------------------
\* Program constants
\* ------------------------------------------------------------------------
MARKET_CAP_DESC == "market_cap_desc"
VOLUME_DESC == "volume_desc"
PER_PAGE == 10
REFRESH_INTERVAL_MS == 60000
RSI_PERIOD == 14
\* the slices fetchMarketChart takes of the price points
MA50_WINDOW == 50
MA200_WINDOW == 200
CHART30_WINDOW == 30
RSI_WINDOW == 15
ERROR_TEXT == "Error fetching data. Please try again later."
LOADING_TEXT == "Loading"

Orders == {MARKET_CAP_DESC, VOLUME_DESC}
Timeframes == {"7d", "30d"}

\* JavaScript null: for a number (a fraction <<n, d>>) and for a timer handle
Null == <<>>
NoTimer == 0
\* a snapshot field (a number) that is null or missing in the payload
NullNumber == -1

\* ------------------------------------------------------------------------
\* Arithmetic on decimals, kept exact as reduced fractions <<num, den>>
\* ------------------------------------------------------------------------
RECURSIVE GCD(_, _)
GCD(a, b) == IF b = 0 THEN a ELSE GCD(b, a % b)

Abs(x) == IF x < 0 THEN -x ELSE x

Frac(n, d) ==
  LET g == GCD(Abs(n), Abs(d))
  IN  IF g = 0 THEN <<n, d>> ELSE <<n \div g, d \div g>>

\* s[lo] + ... + s[hi], added up by halves to keep the evaluation shallow
RECURSIVE SumRange(_, _, _)
SumRange(s, lo, hi) ==
  IF lo > hi THEN 0
  ELSE IF lo = hi THEN s[lo]
  ELSE LET mid == (lo + hi) \div 2
       IN  SumRange(s, lo, mid) + SumRange(s, mid + 1, hi)

Sum(s) == SumRange(s, 1, Len(s))

\* a slice that keeps the first n elements
SliceFirst(s, n) ==
  IF Len(s) <= n THEN s ELSE SubSeq(s, 1, n)

\* Array.prototype.slice(-n): the last n elements, or all when fewer
SliceLast(s, n) ==
  IF Len(s) <= n THEN s ELSE SubSeq(s, Len(s) - n + 1, Len(s))

\* ------------------------------------------------------------------------
\* Indicator computation
\* ------------------------------------------------------------------------
\* reduce((acc, val) => acc + val, 0) / length of a non-empty array
Mean(s) == Frac(Sum(s), Len(s))

\* gains and losses over the deltas prices[i] - prices[i-1], i = 1..period
RECURSIVE Gains(_, _)
Gains(prices, i) ==
  IF i = 0 THEN 0
  ELSE LET change == prices[i + 1] - prices[i]
       IN  Gains(prices, i - 1) + (IF change >= 0 THEN change ELSE 0)

RECURSIVE Losses(_, _)
Losses(prices, i) ==
  IF i = 0 THEN 0
  ELSE LET change == prices[i + 1] - prices[i]
       IN  Losses(prices, i - 1) + (IF change >= 0 THEN 0 ELSE Abs(change))

\* calculateRSI without the test of avgLoss === 0
calculateRSIUnguarded(prices, period) ==
  IF Len(prices) <= period THEN Null
  ELSE LET gains == Gains(prices, period)
           losses == Losses(prices, period)
       IN  Frac(100 * gains, gains + losses)

\* calculateRSI(prices, period): avgGain = gains/period, avgLoss =
\* losses/period, 100 when avgLoss is 0, else 100 - 100/(1 + avgGain/avgLoss),
\* which is 100*gains/(gains + losses)
calculateRSI(prices, period) ==
  IF Len(prices) <= period THEN Null
  ELSE LET gains == Gains(prices, period)
           losses == Losses(prices, period)
       IN  IF losses = 0 THEN Frac(100, 1)
           ELSE Frac(100 * gains, gains + losses)

\* the object fetchMarketChart returns when the response has no price points
NoIndicators == [avg50 |-> Null, avg200 |-> Null, prices30 |-> <<>>, rsi14 |-> Null]

\* fetchMarketChart handing every price point to calculateRSI
fetchMarketChartRsiOfAll(prices) ==
  IF Len(prices) = 0 THEN NoIndicators
  ELSE [avg50 |-> Mean(SliceLast(prices, MA50_WINDOW)),
        avg200 |-> Mean(SliceLast(prices, MA200_WINDOW)),
        prices30 |-> SliceLast(prices, CHART30_WINDOW),
        rsi14 |-> calculateRSI(prices, RSI_PERIOD)]

\* fetchMarketChart with the averages taken over every point returned
fetchMarketChartMeanOfAll(prices) ==
  IF Len(prices) = 0 THEN NoIndicators
  ELSE [avg50 |-> Mean(prices),
        avg200 |-> Mean(prices),
        prices30 |-> SliceLast(prices, CHART30_WINDOW),
        rsi14 |-> calculateRSI(SliceLast(prices, RSI_WINDOW), RSI_PERIOD)]

\* fetchMarketChart after its two awaits: prices is json.prices.map(p => p[1])
fetchMarketChart(prices) ==
  IF Len(prices) = 0 THEN NoIndicators
  ELSE [avg50 |-> Mean(SliceLast(prices, MA50_WINDOW)),
        avg200 |-> Mean(SliceLast(prices, MA200_WINDOW)),
        prices30 |-> SliceLast(prices, CHART30_WINDOW),
        rsi14 |-> calculateRSI(SliceLast(prices, RSI_WINDOW), RSI_PERIOD)]

\* Object.assign({}, coin, extra)
Assign(coin, extra) ==
  [id |-> coin.id, market_cap |-> coin.market_cap,
   total_volume |-> coin.total_volume, current_price |-> coin.current_price,
   sparkline |-> coin.sparkline,
   avg50 |-> extra.avg50, avg200 |-> extra.avg200,
   prices30 |-> extra.prices30, rsi14 |-> extra.rsi14]

\* a catch block that leaves the 200-day average and the RSI of the coin set
HistoryFailedPartial(coin) ==
  Assign(coin, [NoIndicators EXCEPT !.avg200 = Frac(coin.current_price, 1),
                                    !.rsi14 = Frac(50, 1)])

\* the catch of the per-asset callback: the coin with null indicators
HistoryFailed(coin) == Assign(coin, NoIndicators)

\* the per-asset callback without its try/catch: a failed request rejects
EnrichOneNoCatch(coin, outcome) ==
  IF outcome.kind = "error"
  THEN [status |-> "rejected", value |-> <<>>, log |-> {}]
  ELSE [status |-> "fulfilled",
        value |-> Assign(coin, fetchMarketChart(outcome.prices)),
        log |-> {}]

\* the per-asset callback of data.map: the outcome is of kind "error" when
\* fetch or resp.json() rejects, else it carries the response's price points
\* The result is the promise the callback returns: it is fulfilled on both
\* paths, and the catch path writes one console.error line naming the asset.
HistoryErrorLog(id) == [msg |-> "Error fetching historical data for", id |-> id]

EnrichOne(coin, outcome) ==
  IF outcome.kind = "error"
  THEN [status |-> "fulfilled", value |-> HistoryFailed(coin),
        log |-> {HistoryErrorLog(coin.id)}]
  ELSE [status |-> "fulfilled",
        value |-> Assign(coin, fetchMarketChart(outcome.prices)),
        log |-> {}]

\* JavaScript truthiness of a number or null, and `x > 0` (false for null)
Truthy(x) == x # NullNumber /\ x # 0
Positive(x) == x # NullNumber /\ x > 0

\* the ratio without the test of the market cap
RatioUnguarded(coin) == Frac(coin.total_volume, coin.market_cap)

\* volume to market cap ratio, computed when the row is built:
\* coin.market_cap && coin.market_cap > 0 ? total_volume / market_cap : null
Ratio(coin) ==
  IF Truthy(coin.market_cap) /\ Positive(coin.market_cap)
  THEN Frac(coin.total_volume, coin.market_cap)
  ELSE Null

\* ------------------------------------------------------------------------
\* The data provider: three assets, ranked differently by the two orders
\* ------------------------------------------------------------------------
Mixed16 == <<30, 28, 29, 27, 30, 31, 29, 28, 30, 33, 32, 31, 34, 36, 35, 34>>

Coin(id, cap, vol, price) ==
  [id |-> id, market_cap |-> cap, total_volume |-> vol,
   current_price |-> price, sparkline |-> <<price - 1, price>>]

Btc == Coin("btc", 1000, 500, 25)
Eth == Coin("eth", 400, 600, 34)
New == Coin("new", 0, 700, 3)

Ranking(order) ==
  IF order = MARKET_CAP_DESC THEN <<Btc, Eth, New>> ELSE <<New, Eth, Btc>>

\* the array a successful snapshot response for `order` carries, n assets long
Snapshot(order, n) == SubSeq(Ranking(order), 1, n)

\* price points the provider has for an asset: a newly listed asset has none
HistoryOf(id) ==
  IF id = "btc" THEN {Mixed16}
  ELSE IF id = "eth" THEN {<<10, 20, 30>>}
  ELSE {<<>>}

\* how a history request can settle
HistoryOutcomes(id) ==
  {[kind |-> "error", prices |-> <<>>]}
    \cup {[kind |-> "ok", prices |-> h] : h \in HistoryOf(id)}

\* per_page of the snapshot URL: the provider returns at most that many
\* records, here at most MaxAssets of them
PageSize == IF PER_PAGE <= MaxAssets THEN PER_PAGE ELSE MaxAssets

\* how a snapshot request can settle: the request or the JSON parse fails,
\* the payload is not an array (data.map throws), or an array of n assets
SnapshotOutcomes ==
  {[kind |-> "error", n |-> 0], [kind |-> "malformed", n |-> 0]}
    \cup {[kind |-> "ok", n |-> n] : n \in 0..PageSize}

\* ------------------------------------------------------------------------
\* State
\* ------------------------------------------------------------------------
VARIABLES
  loaded,          \* DOMContentLoaded has fired, the handlers are installed
  currentOrder,    \* let currentOrder
  chartTimeframe,  \* let chartTimeframe
  refreshTimer,    \* let refreshTimer: a timer id or NoTimer
  coinsData,       \* let coinsData
  chartInstances,  \* const chartInstances: canvas index -> series drawn
  timers,          \* the browser's scheduled, not yet fired or cleared timeouts
  loading,         \* the #loading element: style.display and textContent
  contentHidden,   \* the #content element carries class `hidden`
  tbody,           \* the rows of #tableBody
  console,         \* the messages written with console.error
  cycles,          \* the executions of fetchData, by order of start
  task,            \* the event whose handler ran last
  call             \* a direct call of an indicator function: input and result

vars == <<loaded, currentOrder, chartTimeframe, refreshTimer, coinsData,
          chartInstances, timers, loading, contentHidden, tbody, console,
          cycles, task, call>>

\* everything but the event marker
page == <<loaded, currentOrder, chartTimeframe, refreshTimer, coinsData,
          chartInstances, timers, loading, contentHidden, tbody, console,
          cycles>>

CycleIds == 1..MaxCycles

\* a fetchData execution that has not started
NotStarted ==
  [pc |-> "none", order |-> MARKET_CAP_DESC, data |-> <<>>,
   history |-> <<>>, results |-> <<>>, settled |-> <<>>, requests |-> <<>>]

\* a history request not yet answered, and the promise waiting for it
Pending == [kind |-> "pending", prices |-> <<>>]
NoRecord == Assign(Coin("", NullNumber, NullNumber, NullNumber), NoIndicators)
PendingResult == [status |-> "pending", value |-> NoRecord, log |-> {}]

\* the executions started so far, and the ones suspended at an await
Started == {c \in CycleIds : cycles[c].pc # "none"}
InFlight == {c \in CycleIds : cycles[c].pc \in {"snapshot", "history"}}

\* no indicator function is being called directly
NoCall ==
  [fn |-> "none", series |-> <<>>, volume |-> 0, market_cap |-> 0,
   done |-> FALSE, ret |-> <<>>]

Init ==
  /\ loaded = FALSE
  /\ currentOrder = MARKET_CAP_DESC
  /\ chartTimeframe \in Timeframes
  /\ refreshTimer = NoTimer
  /\ coinsData = <<>>
  /\ chartInstances = <<>>
  /\ timers = {}
  /\ loading = [display |-> "block", text |-> LOADING_TEXT]
  /\ contentHidden = TRUE
  /\ tbody = <<>>
  /\ console = {}
  /\ cycles = [c \in CycleIds |-> NotStarted]
  /\ task = "none"
  /\ call = NoCall

\* ------------------------------------------------------------------------
\* Rendering
\* ------------------------------------------------------------------------
\* the <tr> built for coinsData[index]: its canvas and the computed cells
Row(coin, index) ==
  [canvas |-> index, id |-> coin.id, avg50 |-> coin.avg50,
   avg200 |-> coin.avg200, rsi14 |-> coin.rsi14, ratio |-> Ratio(coin)]

Rows(records) == [i \in 1..Len(records) |-> Row(records[i], i)]

\* the series drawChart picks for a coin
DataSeries(coin, timeframe) ==
  IF timeframe = "30d" /\ Len(coin.prices30) > 0
  THEN coin.prices30
  ELSE coin.sparkline

Max(a, b) == IF a >= b THEN a ELSE b

\* updateAllCharts: draws chart after chart; document.getElementById returns
\* null for a canvas that is not in the table and .getContext then throws,
\* which ends the loop.  The result is chartInstances and whether it threw.
updateAllCharts(records, rows, timeframe, charts) ==
  LET canvases == {rows[k].canvas : k \in DOMAIN rows}
      missing == {i \in 1..Len(records) : i \notin canvases}
      drawn == IF missing = {} THEN Len(records)
               ELSE (CHOOSE i \in missing : \A j \in missing : i <= j) - 1
  IN  [charts |-> [i \in 1..Max(Len(charts), drawn) |->
                     IF i <= drawn THEN DataSeries(records[i], timeframe)
                     ELSE charts[i]],
       threw |-> missing # {}]

\* ------------------------------------------------------------------------
\* Timers
\* ------------------------------------------------------------------------
\* a completion that schedules nothing
SetTimeoutNotScheduled(live, id, delay) == live

\* setTimeout(fetchData, delay): the new live timer
SetTimeout(live, id, delay) == live \cup {[id |-> id, delay |-> delay]}

\* clearTimeout(handle)
ClearTimeout(live, handle) == {t \in live : t.id # handle}

\* ------------------------------------------------------------------------
\* fetchData
\* ------------------------------------------------------------------------
CycleErrorLog == [msg |-> "Error fetching crypto data:", id |-> ""]

\* the values collected in the order in which the promises fulfilled
PromiseAllCompletionOrder(results, settled) ==
  [i \in 1..Len(results) |-> results[settled[i]].value]

\* Promise.all over the per-asset promises, all fulfilled: the values in the
\* order of the input array; settled is the order in which they fulfilled
PromiseAll(results, settled) ==
  [i \in 1..Len(results) |-> results[i].value]

\* the requests an execution issues, by what distinguishes their URLs
SnapshotUrl(order) == order
HistoryUrl(id) == id

\* data.map(async (coin) => ...): every callback runs to its first await,
\* which issues the history request of its coin
HistoryRequests(data) == [i \in 1..Len(data) |-> HistoryUrl(data[i].id)]

\* a callback that requests the history again when the request failed
SettleRetrying(cyc, i, out, r) ==
  IF out.kind = "error"
  THEN [cyc EXCEPT !.requests = Append(@, HistoryUrl(cyc.data[i].id))]
  ELSE [cyc EXCEPT !.history[i] = out,
                   !.results[i] = [status |-> r.status, value |-> r.value,
                                   log |-> {}],
                   !.settled = Append(@, i)]

\* the execution after the history request of asset i was answered by out
\* and the callback of the asset settled with r
Settle(cyc, i, out, r) ==
  [cyc EXCEPT !.history[i] = out,
              !.results[i] = [status |-> r.status, value |-> r.value,
                              log |-> {}],
              !.settled = Append(@, i)]

\* a join that resumes fetchData as soon as one promise has fulfilled
AnySettled(cyc) == Len(cyc.settled) >= 1

\* Promise.all fulfils when every promise of the array has fulfilled
AllSettled(cyc) == Len(cyc.settled) = Len(cyc.data)

\* the id of the next fetchData execution
NextCycle == Cardinality(Started) + 1

\* fetchData from its first line to the first await: show the loading
\* state, empty the table, clear the refresh timer, request the snapshot
\* for the current order.  live is the set of timers before the call.
FetchDataStart(order, live) ==
  /\ NextCycle <= MaxCycles
  /\ loading' = [loading EXCEPT !.display = "block"]
  /\ contentHidden' = TRUE
  /\ tbody' = <<>>
  /\ IF refreshTimer # NoTimer
     THEN /\ timers' = ClearTimeout(live, refreshTimer)
          /\ refreshTimer' = NoTimer
     ELSE /\ timers' = live
          /\ refreshTimer' = refreshTimer
  /\ cycles' = [cycles EXCEPT ![NextCycle] =
                  [NotStarted EXCEPT !.pc = "snapshot", !.order = order,
                                     !.requests = <<SnapshotUrl(order)>>]]
  /\ UNCHANGED <<coinsData, chartInstances, console>>

\* the catch block of fetchData (cyc is the execution's state at the throw)
Catch(c, cyc, logged) ==
  /\ console' = console \cup logged \cup {CycleErrorLog}
  /\ loading' = [loading EXCEPT !.text = ERROR_TEXT]
  /\ cycles' = [cycles EXCEPT ![c] = [cyc EXCEPT !.pc = "failed"]]

\* a join that never resumes fetchData
CompleteNever(c, cyc, records, logged) ==
  /\ cycles' = [cycles EXCEPT ![c] = cyc]
  /\ console' = console \cup logged
  /\ UNCHANGED <<coinsData, tbody, chartInstances, loading, contentHidden,
                 refreshTimer, timers>>

\* fetchData after Promise.all has fulfilled with records: store them, build
\* the rows, draw the charts, show the content, arm the refresh timer
Complete(c, cyc, records, logged) ==
  LET rows == tbody \o Rows(records)
      draw == updateAllCharts(records, rows, chartTimeframe, chartInstances)
  IN  /\ coinsData' = records
      /\ tbody' = rows
      /\ chartInstances' = draw.charts
      /\ IF draw.threw
         THEN /\ Catch(c, cyc, logged)
              /\ UNCHANGED <<contentHidden, refreshTimer, timers>>
         ELSE /\ loading' = [loading EXCEPT !.display = "none"]
              /\ contentHidden' = FALSE
              /\ refreshTimer' = c
              /\ timers' = SetTimeout(timers, c, REFRESH_INTERVAL_MS)
              /\ console' = console \cup logged
              /\ cycles' = [cycles EXCEPT ![c] = [cyc EXCEPT !.pc = "success"]]

\* ------------------------------------------------------------------------
\* Actions
\* ------------------------------------------------------------------------
\* the DOMContentLoaded handler: installs the click handlers, calls fetchData
DOMContentLoaded ==
  /\ ~loaded
  /\ task' = "DOMContentLoaded"
  /\ loaded' = TRUE
  /\ FetchDataStart(currentOrder, timers)
  /\ UNCHANGED <<currentOrder, chartTimeframe, call>>

\* a click handler without the test of the current order
OrderClickAlways(order) ==
  /\ loaded
  /\ task' = order
  /\ currentOrder' = order
  /\ FetchDataStart(order, timers)
  /\ UNCHANGED <<loaded, chartTimeframe, call>>

\* the click handlers of marketBtn and volumeBtn
OrderClick(order) ==
  /\ loaded
  /\ task' = order
  /\ IF currentOrder # order
     THEN /\ currentOrder' = order
          /\ FetchDataStart(order, timers)
          /\ UNCHANGED <<loaded, chartTimeframe>>
     ELSE UNCHANGED page
  /\ UNCHANGED call

marketBtnClick == OrderClick(MARKET_CAP_DESC)

volumeBtnClick == OrderClick(VOLUME_DESC)

\* a timeframe handler that reloads the data instead of redrawing
TimeframeClickRefetch(timeframe) ==
  /\ loaded
  /\ task' = timeframe
  /\ IF chartTimeframe # timeframe
     THEN /\ chartTimeframe' = timeframe
          /\ FetchDataStart(currentOrder, timers)
          /\ UNCHANGED <<loaded, currentOrder>>
     ELSE UNCHANGED page
  /\ UNCHANGED call

\* the click handlers of chart7Btn and chart30Btn; an exception thrown by
\* updateAllCharts ends the handler
TimeframeClick(timeframe) ==
  /\ loaded
  /\ task' = timeframe
  /\ IF chartTimeframe # timeframe
     THEN /\ chartTimeframe' = timeframe
          /\ chartInstances' =
               updateAllCharts(coinsData, tbody, timeframe, chartInstances).charts
          /\ UNCHANGED <<loaded, currentOrder, refreshTimer, coinsData, timers,
                         loading, contentHidden, tbody, console, cycles>>
     ELSE UNCHANGED page
  /\ UNCHANGED call

chart7BtnClick == TimeframeClick("7d")

chart30BtnClick == TimeframeClick("30d")

\* a refresh timer fires: the browser runs fetchData
TimerFire ==
  \E t \in timers :
    /\ task' = "timer"
    /\ FetchDataStart(currentOrder, timers \ {t})
    /\ UNCHANGED <<loaded, currentOrder, chartTimeframe, call>>

\* the snapshot request of execution c settles; on success data.map starts
\* one history request per asset and fetchData awaits Promise.all
SnapshotResponse ==
  \E c \in CycleIds, out \in SnapshotOutcomes :
    /\ cycles[c].pc = "snapshot"
    /\ task' = "snapshot"
    /\ IF out.kind # "ok"
       THEN /\ Catch(c, cycles[c], {})
            /\ UNCHANGED <<coinsData, chartInstances, refreshTimer, timers,
                           contentHidden, tbody>>
       ELSE LET data == Snapshot(cycles[c].order, out.n)
                cyc == [cycles[c] EXCEPT
                          !.data = data,
                          !.requests = @ \o HistoryRequests(data),
                          !.history = [i \in 1..out.n |-> Pending],
                          !.results = [i \in 1..out.n |-> PendingResult]]
            IN  IF out.n = 0
                THEN Complete(c, cyc, PromiseAll(cyc.results, cyc.settled), {})
                ELSE /\ cycles' = [cycles EXCEPT ![c] =
                                     [cyc EXCEPT !.pc = "history"]]
                     /\ UNCHANGED <<coinsData, chartInstances, refreshTimer,
                                    timers, loading, contentHidden, tbody,
                                    console>>
    /\ UNCHANGED <<loaded, currentOrder, chartTimeframe, call>>

\* the history request of asset i of execution c settles and its callback
\* runs to its end; if it rejects, Promise.all rejects and fetchData catches;
\* if it was the last one pending, Promise.all fulfills and fetchData resumes
HistoryResponse ==
  \E c \in CycleIds :
    /\ cycles[c].pc = "history"
    /\ task' = "history"
    /\ \E i \in DOMAIN cycles[c].data :
         /\ cycles[c].history[i] = Pending
         /\ \E out \in HistoryOutcomes(cycles[c].data[i].id) :
              LET r == EnrichOne(cycles[c].data[i], out)
                  cyc == Settle(cycles[c], i, out, r)
              IN  IF r.status = "rejected"
                  THEN /\ Catch(c, cyc, r.log)
                       /\ UNCHANGED <<coinsData, chartInstances, refreshTimer,
                                      timers, contentHidden, tbody>>
                  ELSE IF AllSettled(cyc)
                  THEN Complete(c, cyc, PromiseAll(cyc.results, cyc.settled),
                                r.log)
                  ELSE /\ cycles' = [cycles EXCEPT ![c] = cyc]
                       /\ console' = console \cup r.log
                       /\ UNCHANGED <<coinsData, chartInstances, refreshTimer,
                                      timers, loading, contentHidden, tbody>>
    /\ UNCHANGED <<loaded, currentOrder, chartTimeframe, call>>

Next ==
  \/ DOMContentLoaded
  \/ marketBtnClick
  \/ volumeBtnClick
  \/ chart7BtnClick
  \/ chart30BtnClick
  \/ TimerFire
  \/ SnapshotResponse
  \/ HistoryResponse

Spec == Init /\ [][Next]_vars

\* every request the page has issued settles.  The step that answers the
\* snapshot request of execution c is weakly fair; so is the step that
\* answers the history request of asset i of execution c, which is enabled
\* exactly while that request is pending and ends that: its weak fairness
\* is that the request is not pending forever.
SnapshotSettles(c) ==
  /\ cycles[c].pc = "snapshot"
  /\ SnapshotResponse
  /\ cycles'[c].pc # "snapshot"

HistoryPending(c, i) ==
  /\ cycles[c].pc = "history"
  /\ i \in DOMAIN cycles[c].history
  /\ cycles[c].history[i] = Pending

RequestsSettle ==
  /\ \A c \in CycleIds : WF_vars(SnapshotSettles(c))
  /\ \A c \in CycleIds : \A i \in 1..PageSize : []<>~HistoryPending(c, i)

SpecFair == Spec /\ RequestsSettle

\* ------------------------------------------------------------------------
\* The indicator functions called directly, on inputs drawn by Init
\* ------------------------------------------------------------------------
Windows == {RSI_PERIOD, RSI_WINDOW, CHART30_WINDOW, MA50_WINDOW, MA200_WINDOW}

SeriesLengths ==
  {n \in {0, 1, 2, 3} \cup {w - 1 : w \in Windows} \cup Windows
                     \cup {w + 1 : w \in Windows} : n <= MaxSeriesLen}
    \cup {MaxSeriesLen}

SeriesDeltas == {-2, 0, 3}

\* n prices from 1000: the first k deltas are d1, the others d2
Series(n, k, d1, d2) ==
  [i \in 1..n |-> IF i <= k + 1 THEN 1000 + (i - 1) * d1
                  ELSE 1000 + k * d1 + (i - 1 - k) * d2]

TestSeries ==
  {<<10, 20, 30>>}
    \cup {Series(n, k, d1, d2) :
            n \in SeriesLengths, k \in {1, 2, 16}, d1 \in SeriesDeltas,
            d2 \in SeriesDeltas}

TestVolumes == {0, 500, 700}
TestMarketCaps == {NullNumber, 0, 400, 1000}

Calls ==
  {[NoCall EXCEPT !.fn = f, !.series = p] :
     f \in {"calculateRSI", "fetchMarketChart"}, p \in TestSeries}
    \cup {[NoCall EXCEPT !.fn = "ratio", !.volume = v, !.market_cap = m] :
            v \in TestVolumes, m \in TestMarketCaps}

InitLib ==
  /\ loaded = FALSE
  /\ currentOrder = MARKET_CAP_DESC
  /\ chartTimeframe \in Timeframes
  /\ refreshTimer = NoTimer
  /\ coinsData = <<>>
  /\ chartInstances = <<>>
  /\ timers = {}
  /\ loading = [display |-> "block", text |-> LOADING_TEXT]
  /\ contentHidden = TRUE
  /\ tbody = <<>>
  /\ console = {}
  /\ cycles = [c \in CycleIds |-> NotStarted]
  /\ task = "none"
  /\ call \in Calls

Return(fn, value) ==
  /\ call.fn = fn
  /\ ~call.done
  /\ call' = [call EXCEPT !.done = TRUE, !.ret = value]
  /\ UNCHANGED <<page, task>>

calculateRSICall == Return("calculateRSI", calculateRSI(call.series, RSI_PERIOD))

fetchMarketChartCall == Return("fetchMarketChart", fetchMarketChart(call.series))

RatioCall ==
  Return("ratio", Ratio([market_cap |-> call.market_cap,
                         total_volume |-> call.volume]))

NextLib ==
  \/ calculateRSICall
  \/ fetchMarketChartCall
  \/ RatioCall

SpecLib == InitLib /\ [][NextLib]_vars

\* ------------------------------------------------------------------------
\* Shared vocabulary of the properties
\* ------------------------------------------------------------------------
\* execution c leaves the stage `from` in this step
Leaves(c, from) == cycles[c].pc = from /\ cycles'[c].pc # from

\* execution c ends in this step, successfully or in the catch block
Succeeds(c) == cycles[c].pc # "success" /\ cycles'[c].pc = "success"
Fails(c) == cycles[c].pc # "failed" /\ cycles'[c].pc = "failed"

\* this step starts a fetchData execution
StartsCycle == Started' # Started

\* the refresh timer is set and live
TimerArmed == refreshTimer # NoTimer /\ \E t \in timers : t.id = refreshTimer

\* the most recently started execution
LastCycle == Cardinality(Started)

\* asset i of execution c had its history request answered by a failure
HistoryErrored(c, i) == cycles[c].history[i].kind = "error"

\* ------------------------------------------------------------------------
\* C1 (stated as claimed): at most one refresh cycle is in flight at any
\* time, so no state has two fetchData executions outstanding.
\* ------------------------------------------------------------------------
C1_AtMostOneCycleInFlight == Cardinality(InFlight) <= 1

\* ------------------------------------------------------------------------
\* C2 (stated as claimed): last cycle wins.  Once every started cycle has
\* settled and the cycle started last (the one for the most recently
\* requested order) succeeded, coinsData holds that cycle's records.
\* ------------------------------------------------------------------------
C2_LastCycleWins ==
  (Started # {} /\ InFlight = {} /\ cycles[LastCycle].pc = "success")
    => coinsData = PromiseAll(cycles[LastCycle].results,
                              cycles[LastCycle].settled)

\* ------------------------------------------------------------------------
\* C3 (stated as claimed): a cycle whose snapshot request fails ends with
\* the refresh timer armed.
\* ------------------------------------------------------------------------
C3_FailedCycleRearms ==
  [][\A c \in CycleIds :
       (Leaves(c, "snapshot") /\ Fails(c))
         => (refreshTimer' # NoTimer
             /\ \E t \in timers' : t.id = refreshTimer')]_vars

\* ------------------------------------------------------------------------
\* C4: one bad asset never aborts the batch.  When the enrichment of a
\* cycle ends, whatever subset of its history requests failed, the cycle
\* succeeds: coinsData has exactly one record per snapshot asset, the rows
\* of these records are in the table, the content is shown and the refresh
\* timer is armed.
\* ------------------------------------------------------------------------
C4_BadAssetNeverAbortsBatch ==
  [][\A c \in CycleIds :
       Leaves(c, "history")
         => /\ Succeeds(c)
            /\ Len(coinsData') = Len(cycles[c].data)
            /\ \A i \in DOMAIN cycles[c].data :
                 coinsData'[i].id = cycles[c].data[i].id
            /\ \A i \in DOMAIN coinsData' :
                 \E k \in DOMAIN tbody' : tbody'[k] = Row(coinsData'[i], i)
            /\ loading'.display = "none"
            /\ ~contentHidden'
            /\ refreshTimer' # NoTimer
            /\ \E t \in timers' : t.id = refreshTimer']_vars

\* a cycle that succeeded although one of its history requests failed
C4_Witness ==
  \E c \in CycleIds :
    /\ cycles[c].pc = "success"
    /\ \E i \in DOMAIN cycles[c].data : HistoryErrored(c, i)
    /\ \E i \in DOMAIN cycles[c].data : ~HistoryErrored(c, i)
    /\ Len(coinsData) = Len(cycles[c].data)
    /\ TimerArmed

\* ------------------------------------------------------------------------
\* C5 (stated as claimed): the record of an asset whose history fetch failed
\* has avg50, avg200, rsi14, the last-30 series and the volume to market
\* cap ratio all absent; the record of an asset whose fetch returned at
\* least 15 points has them all present.
\* ------------------------------------------------------------------------
IndicatorsAbsent(rec) ==
  /\ rec.avg50 = Null
  /\ rec.avg200 = Null
  /\ rec.rsi14 = Null
  /\ rec.prices30 = <<>>

IndicatorsPresent(rec) ==
  /\ rec.avg50 # Null
  /\ rec.avg200 # Null
  /\ rec.rsi14 # Null
  /\ rec.prices30 # <<>>

Answered(c) == {i \in DOMAIN cycles[c].history : cycles[c].history[i] # Pending}

C5_AllIndicatorsAbsentOnFailure ==
  \A c \in CycleIds : \A i \in Answered(c) :
    LET rec == cycles[c].results[i].value
    IN  /\ HistoryErrored(c, i)
          => IndicatorsAbsent(rec) /\ Row(rec, i).ratio = Null
        /\ (~HistoryErrored(c, i) /\ Len(cycles[c].history[i].prices) >= 15)
          => IndicatorsPresent(rec) /\ Row(rec, i).ratio # Null

\* C5 (amended): the record of an asset whose history fetch failed has
\* avg50, avg200 and rsi14 absent and an empty last-30 series; the record of
\* an asset whose fetch returned at least 15 points has these four present.
\* The ratio does not depend on the history fetch: on both paths the row
\* shows volume / market cap when the market cap is positive, else nothing.
C5_HistoryIndicatorsAbsentOnFailure ==
  \A c \in CycleIds : \A i \in Answered(c) :
    LET rec == cycles[c].results[i].value
        coin == cycles[c].data[i]
    IN  /\ HistoryErrored(c, i) => IndicatorsAbsent(rec)
        /\ (~HistoryErrored(c, i) /\ Len(cycles[c].history[i].prices) >= 15)
          => IndicatorsPresent(rec)
        /\ Row(rec, i).ratio =
             IF coin.market_cap > 0
             THEN Frac(coin.total_volume, coin.market_cap)
             ELSE Null

\* a finished cycle with a failed asset of positive market cap, whose row
\* shows a ratio, next to an asset with full indicators
C5_Witness ==
  \E c \in CycleIds :
    /\ cycles[c].pc = "success"
    /\ \E i \in DOMAIN coinsData :
         /\ HistoryErrored(c, i)
         /\ coinsData[i] = cycles[c].results[i].value
         /\ IndicatorsAbsent(coinsData[i])
         /\ \E k \in DOMAIN tbody :
              tbody[k].id = coinsData[i].id /\ tbody[k].ratio # Null
    /\ \E i \in DOMAIN coinsData :
         /\ ~HistoryErrored(c, i)
         /\ coinsData[i] = cycles[c].results[i].value
         /\ IndicatorsPresent(coinsData[i])

\* ------------------------------------------------------------------------
\* C6: input order is preserved under any completion order.  When a cycle
\* stores its records, the i-th record is the enrichment of the i-th asset
\* of the snapshot, in whatever order the history requests settled.
\* ------------------------------------------------------------------------
C6_InputOrderPreserved ==
  [][\A c \in CycleIds :
       Succeeds(c)
         => /\ Len(coinsData') = Len(cycles'[c].data)
            /\ \A i \in DOMAIN coinsData' :
                 /\ coinsData'[i].id = cycles'[c].data[i].id
                 /\ coinsData'[i] = cycles'[c].results[i].value]_vars

\* a cycle whose later asset settled first, and the records it stored
C6_Witness ==
  \E c \in CycleIds :
    /\ cycles[c].pc = "success"
    /\ Len(cycles[c].settled) >= 2
    /\ cycles[c].settled[1] > cycles[c].settled[2]
    /\ Len(coinsData) = Len(cycles[c].data)
    /\ \A i \in DOMAIN coinsData : coinsData[i].id = cycles[c].data[i].id

\* ------------------------------------------------------------------------
\* C8 (stated as claimed): at most one refresh timer is live, and a live
\* timer is the one held in refreshTimer.
\* ------------------------------------------------------------------------
C8_AtMostOneLiveTimer ==
  /\ Cardinality(timers) <= 1
  /\ \A t \in timers : t.id = refreshTimer

\* ------------------------------------------------------------------------
\* C9: startup runs one cycle immediately; a cycle that completes
\* successfully ends with the refresh timer armed for REFRESH_INTERVAL_MS;
\* when a timer fires, a new cycle starts for the current order.
\* ------------------------------------------------------------------------
C9_StartupAndRefreshLoop ==
  [][/\ (~loaded /\ loaded')
          => (StartsCycle /\ cycles'[1].pc = "snapshot")
     /\ \A c \in CycleIds :
          Succeeds(c)
            => \E t \in timers' :
                 /\ t.id = refreshTimer'
                 /\ t.delay = REFRESH_INTERVAL_MS
                 /\ t \notin timers
     /\ (task' = "timer" /\ page' # page)
          => /\ StartsCycle
             /\ cycles'[LastCycle'].pc = "snapshot"
             /\ cycles'[LastCycle'].order = currentOrder
             /\ currentOrder' = currentOrder]_vars

\* the first cycle succeeded, its timer fired and started the second cycle
C9_Witness ==
  /\ task = "timer"
  /\ cycles[1].pc = "success"
  /\ cycles[2].pc = "snapshot"
  /\ cycles[2].order = currentOrder

\* ------------------------------------------------------------------------
\* C10: a click on the button of an order other than the current one sets
\* the current order and starts a cycle whose snapshot request uses it; a
\* click on the button of the current order changes nothing and issues no
\* request.
\* ------------------------------------------------------------------------
C10_SelectOrder ==
  [][\A o \in Orders :
       (task' = o /\ vars' # vars)
         => IF currentOrder # o
            THEN /\ currentOrder' = o
                 /\ StartsCycle
                 /\ cycles'[LastCycle'].pc = "snapshot"
                 /\ cycles'[LastCycle'].order = o
            ELSE /\ page' = page
                 /\ ~StartsCycle]_vars

\* the order was switched to volume, the cycle started for it has ended, and
\* a further click on the volume button has changed nothing
C10_Witness ==
  /\ task = VOLUME_DESC
  /\ currentOrder = VOLUME_DESC
  /\ LastCycle = 2
  /\ cycles[2].order = VOLUME_DESC
  /\ cycles[2].pc = "success"

\* ------------------------------------------------------------------------
\* C11: a timeframe click never causes a fetch.  Whatever the state, the
\* click starts no cycle and issues no request, and leaves the current
\* order, the record set, the pending timer, the in-flight cycles, the table
\* rows and the loading state as they are; only chartTimeframe and the
\* charts drawn change.
\* ------------------------------------------------------------------------
C11_TimeframeNeverFetches ==
  [][\A tf \in Timeframes :
       (task' = tf /\ vars' # vars)
         => /\ ~StartsCycle
            /\ UNCHANGED <<currentOrder, coinsData, refreshTimer, timers,
                           cycles, tbody, loading, contentHidden, console,
                           loaded>>
            /\ chartTimeframe' \in {chartTimeframe, tf}]_vars

\* the 7-day button was clicked while a cycle is in flight and a record set
\* of an earlier cycle is stored
C11_Witness ==
  /\ task = "7d"
  /\ chartTimeframe = "7d"
  /\ InFlight # {}
  /\ coinsData # <<>>
  /\ \A c \in InFlight : cycles[c].requests # <<>>

\* ------------------------------------------------------------------------
\* C15: fan-in barrier.  The record set is written and rows are added to
\* the table only by a cycle all of whose history requests have been
\* answered, and what it writes is the full list of its records.
\* ------------------------------------------------------------------------
C15_FanInBarrier ==
  [][(coinsData' # coinsData \/ Len(tbody') > Len(tbody))
       => \E c \in CycleIds :
            /\ Succeeds(c)
            /\ \A i \in DOMAIN cycles'[c].data :
                 /\ cycles'[c].history[i] # Pending
                 /\ cycles'[c].results[i].status = "fulfilled"
            /\ Len(coinsData') = Len(cycles'[c].data)
            /\ \A i \in DOMAIN coinsData' :
                 coinsData'[i] = cycles'[c].results[i].value]_vars

\* a cycle waits at the join with one of its two history requests answered:
\* neither the record set nor the table holds that record
C15_Witness ==
  \E c \in CycleIds :
    /\ cycles[c].pc = "history"
    /\ Len(cycles[c].data) = 2
    /\ Len(cycles[c].settled) = 1
    /\ coinsData = <<>>
    /\ tbody = <<>>

\* ------------------------------------------------------------------------
\* C16 (stated as claimed): whenever the history fetch of an asset ends in
\* a transport error or in a well-formed response without price points, the
\* failure is logged under the asset's id, the record of the asset has
\* absent indicators and the callback's promise is fulfilled.
\* ------------------------------------------------------------------------
DataUnavailable(c, i) ==
  cycles[c].history[i].kind = "ok" /\ cycles[c].history[i].prices = <<>>

C16_HistoryFailureLogged ==
  \A c \in CycleIds : \A i \in Answered(c) :
    (HistoryErrored(c, i) \/ DataUnavailable(c, i))
      => /\ HistoryErrorLog(cycles[c].data[i].id) \in console
         /\ IndicatorsAbsent(cycles[c].results[i].value)
         /\ cycles[c].results[i].status = "fulfilled"
         /\ cycles[c].pc # "failed"

\* ------------------------------------------------------------------------
\* C17 (stated as claimed): a cycle whose snapshot request fails issues no
\* history request, leaves the record set and the table rows as they are,
\* and ends with the loading indicator displayed and showing the error
\* message.
\* ------------------------------------------------------------------------
C17_SnapshotFailureAborts ==
  [][\A c \in CycleIds :
       (Leaves(c, "snapshot") /\ Fails(c))
         => /\ cycles'[c].requests = cycles[c].requests
            /\ Len(cycles'[c].requests) = 1
            /\ coinsData' = coinsData
            /\ tbody' = tbody
            /\ loading'.text = ERROR_TEXT
            /\ loading'.display = "block"]_vars

\* the part of C17 that holds in every interleaving: everything but the
\* visibility of the indicator, which a concurrent successful cycle removes
SnapshotFailureKeepsRecords ==
  [][\A c \in CycleIds :
       (Leaves(c, "snapshot") /\ Fails(c))
         => /\ cycles'[c].requests = cycles[c].requests
            /\ Len(cycles'[c].requests) = 1
            /\ coinsData' = coinsData
            /\ tbody' = tbody
            /\ loading'.text = ERROR_TEXT]_vars

\* ------------------------------------------------------------------------
\* C20: no retry within a cycle.  Every execution requests the snapshot
\* exactly once, for its order, and the history of each snapshot asset
\* exactly once, whether these requests succeed or fail.
\* ------------------------------------------------------------------------
C20_NoRetryWithinCycle ==
  \A c \in Started :
    /\ Len(cycles[c].requests) = 1 + Len(cycles[c].data)
    /\ cycles[c].requests[1] = SnapshotUrl(cycles[c].order)
    /\ \A i \in DOMAIN cycles[c].data :
         cycles[c].requests[i + 1] = HistoryUrl(cycles[c].data[i].id)

\* the history request of an asset failed in a cycle that has ended, and a
\* later cycle has requested the history of that asset again
C20_Witness ==
  \E c \in CycleIds, d \in CycleIds :
    /\ c < d
    /\ cycles[c].pc = "success"
    /\ \E i \in DOMAIN cycles[c].data, j \in DOMAIN cycles[d].data :
         /\ HistoryErrored(c, i)
         /\ cycles[d].data[j].id = cycles[c].data[i].id
         /\ cycles[d].requests[j + 1] = HistoryUrl(cycles[c].data[i].id)
    /\ Len(cycles[c].requests) = 1 + Len(cycles[c].data)

\* ------------------------------------------------------------------------
\* C21 (stated as claimed): the rendered table matches the record set.  The
\* table body never has more rows than the page size, and whenever no cycle
\* is in flight and the cycle started last has succeeded, the rows are
\* exactly the rows of the stored records, one per record, in their order.
\* ------------------------------------------------------------------------
Quiescent == InFlight = {}

LastSucceeded == LastCycle >= 1 /\ cycles[LastCycle].pc = "success"

C21_TableMatchesRecords ==
  /\ Len(tbody) <= PageSize
  /\ (Quiescent /\ LastSucceeded) => tbody = Rows(coinsData)

\* ------------------------------------------------------------------------
\* C22 (stated as claimed): a timeframe switch is safe in every scheduler
\* state.  Once the handlers are installed, every record of the stored
\* record set has its canvas in the table, so that updateAllCharts draws
\* every chart without a missing-element error, for either timeframe.
\* ------------------------------------------------------------------------
CanvasPresent(index) == \E k \in DOMAIN tbody : tbody[k].canvas = index

C22_TimeframeSwitchSafe ==
  loaded =>
    /\ \A index \in DOMAIN coinsData : CanvasPresent(index)
    /\ \A timeframe \in Timeframes :
         ~updateAllCharts(coinsData, tbody, timeframe, chartInstances).threw

\* ------------------------------------------------------------------------
\* C23 (stated as claimed): no timer is pending while a cycle is in flight.
\* In every state where an execution of fetchData has started and not
\* finished, refreshTimer is null and no refresh is scheduled.
\* ------------------------------------------------------------------------
C23_NoTimerWhileInFlight ==
  InFlight # {} => refreshTimer = NoTimer /\ timers = {}

\* ------------------------------------------------------------------------
\* C24: every cycle terminates.  When every request issued eventually
\* settles, an execution of fetchData that is in flight eventually ends in
\* success or in failure, whatever the number of assets of its snapshot
\* and whichever of their history requests fail.
\* ------------------------------------------------------------------------
Ended(c) == cycles[c].pc \in {"success", "failed"}

C24_EveryCycleTerminates ==
  \A c \in CycleIds : (c \in InFlight) ~> Ended(c)

\* an execution has passed the join with one history request failed and
\* another answered with prices
C24_Witness ==
  \E c \in CycleIds :
    /\ Ended(c)
    /\ Len(cycles[c].data) >= 2
    /\ AllSettled(cycles[c])
    /\ \E i \in DOMAIN cycles[c].data, j \in DOMAIN cycles[c].data :
         /\ HistoryErrored(c, i)
         /\ cycles[c].history[j].kind = "ok"
         /\ cycles[c].history[j].prices # <<>>

\* ------------------------------------------------------------------------
\* Vocabulary of the properties of the indicator functions, computed from
\* the input series by index
\* ------------------------------------------------------------------------
Returned(fn) == call.fn = fn /\ call.done

Min(a, b) == IF a <= b THEN a ELSE b

\* the n deltas of p that follow its point number from
DeltasFrom(p, from, n) == [j \in 1..n |-> p[from + j] - p[from + j - 1]]

GainOf(ds) == Sum([j \in DOMAIN ds |-> IF ds[j] >= 0 THEN ds[j] ELSE 0])
LossOf(ds) == Sum([j \in DOMAIN ds |-> IF ds[j] >= 0 THEN 0 ELSE -ds[j]])

\* 100 when the average loss is zero, else 100 - 100/(1 + avgGain/avgLoss)
RsiOfDeltas(ds) ==
  IF LossOf(ds) = 0 THEN <<100, 1>>
  ELSE Frac(100 * GainOf(ds), GainOf(ds) + LossOf(ds))

LeadingDeltas(p, n) == DeltasFrom(p, 1, n)
TrailingDeltas(p, n) == DeltasFrom(p, Len(p) - n, n)

NonNegative(ds) == \A j \in DOMAIN ds : ds[j] >= 0

\* a decimal in [0, 100]
InPercentRange(x) ==
  /\ x # Null
  /\ x[2] > 0
  /\ 0 <= x[1]
  /\ x[1] <= 100 * x[2]

\* ------------------------------------------------------------------------
\* C12 (stated as claimed): for every sequence of at least 15 points,
\* calculateRSI(series, 14) is in [0, 100], is 100 when the 14 trailing
\* deltas are non-negative, and is computed from the last 14 deltas of the
\* sequence passed in.
\* ------------------------------------------------------------------------
C12_RsiOverTrailingDeltas ==
  (Returned("calculateRSI") /\ Len(call.series) >= RSI_PERIOD + 1)
    => /\ InPercentRange(call.ret)
       /\ NonNegative(TrailingDeltas(call.series, RSI_PERIOD))
            => call.ret = <<100, 1>>
       /\ call.ret = RsiOfDeltas(TrailingDeltas(call.series, RSI_PERIOD))

\* C12 (amended): for every sequence of at least 15 points,
\* calculateRSI(series, 14) is in [0, 100], is 100 when the first 14 deltas
\* of the sequence passed in are non-negative, and is computed from these
\* first 14 deltas; they are the 14 trailing deltas when the sequence has
\* exactly 15 points.
C12_RsiOverLeadingDeltas ==
  (Returned("calculateRSI") /\ Len(call.series) >= RSI_PERIOD + 1)
    => /\ InPercentRange(call.ret)
       /\ NonNegative(LeadingDeltas(call.series, RSI_PERIOD))
            => call.ret = <<100, 1>>
       /\ call.ret = RsiOfDeltas(LeadingDeltas(call.series, RSI_PERIOD))
       /\ Len(call.series) = RSI_PERIOD + 1
            => call.ret = RsiOfDeltas(TrailingDeltas(call.series, RSI_PERIOD))

\* calculateRSI has returned less than 100 for a 16-point series whose 14
\* trailing deltas are all non-negative
C12_Witness ==
  /\ Returned("calculateRSI")
  /\ Len(call.series) = RSI_PERIOD + 2
  /\ NonNegative(TrailingDeltas(call.series, RSI_PERIOD))
  /\ call.ret # <<100, 1>>
  /\ InPercentRange(call.ret)

\* ------------------------------------------------------------------------
\* C13: the moving average with window w of a history series is the mean of
\* its last w points, or of all its points when it has fewer, and is absent
\* when the series is empty; this holds for avg50 and avg200, and
\* <<10, 20, 30>> with window 50 gives 20.
\* ------------------------------------------------------------------------
MeanOfLast(p, w) ==
  LET n == Min(w, Len(p))
  IN  Frac(SumRange(p, Len(p) - n + 1, Len(p)), n)

C14_Ratio ==
  Returned("ratio")
    => /\ IF call.market_cap # NullNumber /\ call.market_cap > 0
          THEN /\ call.ret # Null
               /\ call.ret[2] > 0
               /\ call.ret[1] * call.market_cap = call.ret[2] * call.volume
          ELSE call.ret = Null
       /\ (call.volume = 500 /\ call.market_cap = 0) => call.ret = Null
       /\ (call.volume = 500 /\ call.market_cap = 1000) => call.ret = <<1, 2>>

\* the ratio of a coin without market cap was asked for and is absent
C14_Witness ==
  /\ Returned("ratio")
  /\ call.volume = 500
  /\ call.market_cap = 0
  /\ call.ret = Null

\* ------------------------------------------------------------------------
\* C18: indicator fields are independently nullable.  For a non-empty
\* series of fewer than 15 points rsi14 is absent while avg50, avg200 and
\* the last-30 series are present; for 15 points or more rsi14 is present
\* and is computed from the 14 trailing deltas of the series.
\* ------------------------------------------------------------------------
C18_IndependentIndicators ==
  Returned("fetchMarketChart")
    => /\ (0 < Len(call.series) /\ Len(call.series) < RSI_WINDOW)
            => /\ call.ret.rsi14 = Null
               /\ call.ret.avg50 # Null
               /\ call.ret.avg200 # Null
               /\ call.ret.prices30 # <<>>
       /\ Len(call.series) >= RSI_WINDOW
            => /\ call.ret.rsi14 # Null
               /\ call.ret.rsi14 =
                    RsiOfDeltas(TrailingDeltas(call.series, RSI_PERIOD))

\* a series of 14 points: no RSI, the other indicators present
C18_Witness ==
  /\ Returned("fetchMarketChart")
  /\ Len(call.series) = RSI_WINDOW - 1
  /\ call.ret.rsi14 = Null
  /\ call.ret.avg50 # Null
  /\ call.ret.avg200 # Null
  /\ call.ret.prices30 = call.series

\* ------------------------------------------------------------------------
\* C19: the last-30 series of a record is the suffix of the history made of
\* its last 30 points in their order, or the whole history when it has
\* fewer; its length is min(30, length of the history).
\* ------------------------------------------------------------------------
C19_Last30 ==
  Returned("fetchMarketChart")
    => LET p == call.series
           q == call.ret.prices30
       IN  /\ Len(q) = Min(CHART30_WINDOW, Len(p))
           /\ Len(q) <= CHART30_WINDOW
           /\ \A j \in 1..Len(q) : q[j] = p[Len(p) - Len(q) + j]

\* a history of more than 30 points, cut to its last 30
C19_Witness ==
  /\ Returned("fetchMarketChart")
  /\ Len(call.series) > CHART30_WINDOW
  /\ Len(call.ret.prices30) = CHART30_WINDOW
  /\ call.ret.prices30[1] # call.series[1]
  /\ call.ret.prices30[CHART30_WINDOW] = call.series[Len(call.series)]

====
